---- MODULE Spec2Model ----
(***************************************************************************)
(* Model of the field-mapping application: the layer-create action (two    *)
(* revisions: "dispatcher" and "admins"), the task-map loader and the      *)
(* TaskMap component (two revisions: "popup" and "crosshair").             *)
(*                                                                         *)
(* JSON values are tagged records: [t |-> "str", s |-> <<code points>>],   *)
(* [t |-> "num", n |-> i], [t |-> "null"], [t |-> "arr", a |-> <<...>>],   *)
(* [t |-> "obj", o |-> [key |-> value]].  A JavaScript string is the       *)
(* sequence of its code points; its .length counts UTF-16 code units.      *)
(***************************************************************************)
EXTENDS Integers, Sequences, FiniteSets, TLC

VARIABLES
    createVariant,  \* which revision of the layer-create action is deployed
    mapVariant,     \* which revision of TaskMap is deployed
    layers,         \* Layer rows
    features,       \* Feature rows
    assignments,    \* Assignment rows
    session,        \* cookie session entries: task, viewState
    req,            \* layer-create requests: received, then answered
    mounted,        \* TaskMap is rendered
    userId,         \* the surveyor of the session
    loaderData,     \* useLoaderData(): assignments, layer, savedState
    showPopup,      \* TaskMap state
    addPoint,
    dCoords,
    viewState,
    completed,
    assignment,
    camera,         \* the center and zoom the Map component shows
    fetcher,        \* create-point submissions the server has not handled yet
    shpFiles,       \* the files chosen in the New Layer form
    shpUploads,     \* the URLs /actions/file-upload has returned so far
    shpUrl,         \* handleShpUpload's shpUrl
    shpLoad         \* the URL handed to load(), once the loop is over

dbVars == <<layers, features, assignments>>
reactVars == <<showPopup, addPoint, dCoords, viewState, completed, assignment>>
mapVars == <<mounted, userId, loaderData, showPopup, addPoint, dCoords,
             viewState, completed, assignment, camera, fetcher>>
shpVars == <<shpFiles, shpUploads, shpUrl, shpLoad>>
vars == <<createVariant, mapVariant, layers, features, assignments, session, req,
          mounted, userId, loaderData, showPopup, addPoint, dCoords,
          viewState, completed, assignment, camera, fetcher,
          shpFiles, shpUploads, shpUrl, shpLoad>>

----------------------------------------------------------------------------
(* JSON values and JavaScript strings *)

Str(s) == [t |-> "str", s |-> s]
Num(n) == [t |-> "num", n |-> n]
Null == [t |-> "null"]
Arr(a) == [t |-> "arr", a |-> a]
Obj(o) == [t |-> "obj", o |-> o]
Undefined == [t |-> "undefined"]

\* The length the reviver compares String.prototype.length with.
FillerLength == 254

\* First code point outside the Basic Multilingual Plane: such a character
\* takes two UTF-16 code units.
AstralStart == 65536

\* value.length : one code unit per character, two per astral character
JSLength(s) == Len(s) + Cardinality({i \in DOMAIN s : s[i] >= AstralStart})

\* [...new Set(Array.from(value))].length : the number of distinct code points
DistinctChars(s) == Cardinality({s[i] : i \in DOMAIN s})

\* A variant of the reviver that forgets the single-character test.
reviverAnyFiller(value) ==
    IF value.t = "str" /\ JSLength(value.s) = FillerLength
    THEN Str(<<>>)
    ELSE value

\* The reviver passed to JSON.parse.
reviver(value) ==
    IF value.t = "str"
       /\ JSLength(value.s) = FillerLength
       /\ DistinctChars(value.s) = 1
    THEN Str(<<>>)
    ELSE value

\* JSON.parse's walk: children first, then the holder itself.
RECURSIVE Internalize(_)
Internalize(v) ==
    CASE v.t = "arr" -> reviver(Arr([i \in DOMAIN v.a |-> Internalize(v.a[i])]))
      [] v.t = "obj" -> reviver(Obj([k \in DOMAIN v.o |-> Internalize(v.o[k])]))
      [] OTHER -> reviver(v)

\* The text of a form field: empty, not JSON, or the JSON text of a value.
EmptyText == [kind |-> "empty"]
InvalidText == [kind |-> "invalid"]
JSONText(v) == [kind |-> "json", value |-> v]

\* A parse that swallows the SyntaxError and goes on with no features.
JSONParseLenient(text) ==
    IF text.kind = "json"
    THEN [ok |-> TRUE, value |-> Internalize(text.value)]
    ELSE [ok |-> TRUE, value |-> Arr(<<>>)]

\* JSON.parse(String(features), reviver): throws a SyntaxError on text that
\* is not JSON, the empty string included.
JSONParse(text) ==
    IF text.kind = "json"
    THEN [ok |-> TRUE, value |-> Internalize(text.value)]
    ELSE [ok |-> FALSE, error |-> "SyntaxError"]

----------------------------------------------------------------------------
(* The database behind prisma *)

\* Rows of the Survey table and the ids of the admin users; both are managed
\* outside these files.
Surveys == {1}
Admins == {1}

NoRows == [layers |-> {}, features |-> {}]

\* One row of createMany's data, as the dispatcher revision passes it on:
\* the parsed record itself.
FeatureDataAsGiven(f) ==
    [geojson |-> f.o.geojson,
     label |-> IF "label" \in DOMAIN f.o THEN f.o.label ELSE Undefined]

\* properties[String(field)]: undefined when the key is absent.
PropertyOf(properties, field) ==
    IF field \in DOMAIN properties.o THEN properties.o[field] ELSE Undefined

\* One row of createMany's data in the admins revision:
\* { ...f, label: f.geojson.properties[String(field)] }.
FeatureDataLabelled(f, field) ==
    [geojson |-> f.o.geojson,
     label |-> PropertyOf(f.o.geojson.o.properties, field)]

\* Reading a property of null throws a TypeError.
ThrowsTypeError(f) == f.o.geojson.o.properties.t # "obj"

\* parseInt(surveyId) of the form's survey select
parseInt(s) == CASE s = "1" -> 1 [] s = "7" -> 7

\* defaultSurvey: surveyId ? { connect: { id: parseInt(surveyId) } } : undefined
DefaultSurvey(surveyId) == IF surveyId # "" THEN <<parseInt(surveyId)>> ELSE <<>>

\* The Prisma.LayerCreateInput built by the dispatcher revision.
LayerInputDispatcher(form, parsedFeatures) ==
    IF form.features = EmptyText
    THEN [ok |-> TRUE,
          data |-> [name |-> form.name, labelField |-> <<form.field>>,
                    owner |-> [rel |-> "dispatcher", id |-> form.userId],
                    features |-> <<>>,
                    defaultSurvey |-> DefaultSurvey(form.surveyId)]]
    ELSE [ok |-> TRUE,
          data |-> [name |-> form.name, labelField |-> <<form.field>>,
                    owner |-> [rel |-> "dispatcher", id |-> form.userId],
                    features |-> [i \in DOMAIN parsedFeatures.a |->
                                    FeatureDataAsGiven(parsedFeatures.a[i])],
                    defaultSurvey |-> DefaultSurvey(form.surveyId)]]

\* The Prisma.LayerCreateInput built by the admins revision.
LayerInputAdmins(form, parsedFeatures) ==
    IF form.features = EmptyText
    THEN [ok |-> TRUE,
          data |-> [name |-> form.name, labelField |-> <<>>,
                    owner |-> [rel |-> "admins", id |-> form.userId],
                    features |-> <<>>,
                    defaultSurvey |-> DefaultSurvey(form.surveyId)]]
    ELSE IF \E i \in DOMAIN parsedFeatures.a : ThrowsTypeError(parsedFeatures.a[i])
    THEN [ok |-> FALSE, error |-> "TypeError"]
    ELSE [ok |-> TRUE,
          data |-> [name |-> form.name, labelField |-> <<>>,
                    owner |-> [rel |-> "admins", id |-> form.userId],
                    features |-> [i \in DOMAIN parsedFeatures.a |->
                                    FeatureDataLabelled(parsedFeatures.a[i], form.field)],
                    defaultSurvey |-> DefaultSurvey(form.surveyId)]]

\* A Layer table without the unique constraint on name.
CreateErrorsNoUnique(db, data) ==
    {e \in {"P2025"} :
        \/ \E i \in DOMAIN data.defaultSurvey : data.defaultSurvey[i] \notin Surveys
        \/ data.owner.id \notin Admins}

\* The errors prisma.layer.create raises for this input: P2002 when the
\* unique name is taken, P2025 when a record to connect does not exist.
CreateErrors(db, data) ==
    {e \in {"P2002", "P2025"} :
        \/ e = "P2002" /\ \E l \in db.layers : l.name = data.name
        \/ e = "P2025" /\ \/ \E i \in DOMAIN data.defaultSurvey :
                                data.defaultSurvey[i] \notin Surveys
                          \/ data.owner.id \notin Admins}

NewLayerRow(db, data) ==
    [id |-> Cardinality(db.layers) + 1,
     name |-> data.name,
     labelField |-> data.labelField,
     owner |-> data.owner,
     defaultSurveyId |-> data.defaultSurvey]

NewFeatureRows(db, data) ==
    {[id |-> Cardinality(db.features) + i,
      layerId |-> Cardinality(db.layers) + 1,
      geojson |-> data.features[i].geojson,
      label |-> data.features[i].label] : i \in DOMAIN data.features}

\* A write that inserts the Layer row and leaves the createMany out.
PrismaLayerCreateLayerOnly(db, data) ==
    [layers |-> db.layers \cup {NewLayerRow(db, data)},
     features |-> db.features]

\* prisma.layer.create({ data }) when no constraint fails: a nested write,
\* the Layer row and the createMany rows are inserted in one transaction.
PrismaLayerCreate(db, data) ==
    [layers |-> db.layers \cup {NewLayerRow(db, data)},
     features |-> db.features \cup NewFeatureRows(db, data)]

----------------------------------------------------------------------------
(* The layer-create action *)

Redirect(to) == [status |-> "redirect", to |-> to]
Thrown(e) == [status |-> "error", error |-> e]

\* The Prisma.LayerCreateInput of the deployed revision.
LayerInput(variant, form, parsedFeatures) ==
    IF variant = "dispatcher"
    THEN LayerInputDispatcher(form, parsedFeatures)
    ELSE LayerInputAdmins(form, parsedFeatures)

\* What follows `await prisma.layer.create`: the dispatcher revision stores
\* the name as the session's task and redirects to the layer, the admins
\* revision redirects to the list of layers.
Respond(variant, sess, form) ==
    IF variant = "dispatcher"
    THEN [session |-> [sess EXCEPT !.task = <<form.name>>],
          response |-> Redirect(<<"/admin/layers", form.name>>)]
    ELSE [session |-> sess, response |-> Redirect(<<"/admin/layers">>)]

\* The outcomes of one run of the action on the rows db: the first throw
\* ends the run, and a run that throws commits neither rows nor session.
layerCreateAction(variant, db, sess, form) ==
    LET parsed == JSONParse(form.features)
        input == LayerInput(variant, form, parsed.value)
    IN  IF ~parsed.ok
        THEN {[db |-> db, session |-> sess, response |-> Thrown(parsed.error)]}
        ELSE IF ~input.ok
        THEN {[db |-> db, session |-> sess, response |-> Thrown(input.error)]}
        ELSE IF CreateErrors(db, input.data) # {}
        THEN {[db |-> db, session |-> sess, response |-> Thrown(e)] :
                e \in CreateErrors(db, input.data)}
        ELSE {[db |-> PrismaLayerCreate(db, input.data),
               session |-> Respond(variant, sess, form).session,
               response |-> Respond(variant, sess, form).response]}

----------------------------------------------------------------------------
(* Inputs of the layer-create form *)

Rep(c, n) == [i \in 1..n |-> c]

\* The strings the imported properties hold: the filler of 254 copies of one
\* character, its neighbours in length, a 254-character string of two
\* characters, and an astral character repeated 127 and 254 times.
Filler == Rep(97, FillerLength)
Shorter == Rep(97, FillerLength - 1)
Longer == Rep(97, FillerLength + 1)
Mixed == [i \in 1..FillerLength |-> IF i = FillerLength THEN 98 ELSE 97]
AstralFiller == Rep(128512, FillerLength \div 2)
AstralLong == Rep(128512, FillerLength)
Short == <<97, 98, 97>>

\* { geojson: f } for a GeoJSON feature f with the given properties
FeatureRecord(properties) ==
    Obj([geojson |-> Obj([type |-> Str(<<70>>), properties |-> properties])])

FeatureLists ==
    { <<FeatureRecord(Obj([name |-> Str(Filler)]))>>,
      <<FeatureRecord(Obj([name |-> Str(Short), kind |-> Num(1)])),
        FeatureRecord(Obj([name |-> Str(Mixed), kind |-> Str(AstralFiller)]))>>,
      <<FeatureRecord(Obj([kind |-> Arr(<<Str(Filler), Str(Shorter)>>)])),
        FeatureRecord(Obj([name |-> Str(Longer)])),
        Obj([geojson |-> Obj([type |-> Str(<<70>>),
                              properties |-> Obj([name |-> Str(AstralLong)])]),
             label |-> Str(Filler)])>>,
      <<FeatureRecord(Null)>> }

FeatureTexts == {EmptyText, InvalidText} \cup {JSONText(Arr(l)) : l \in FeatureLists}

Names == {"A", "B"}
Fields == {"name", "kind"}
SurveyIds == {"", "1", "7"}
Reqs == {1, 2}

Forms ==
    [features : FeatureTexts, name : Names, field : Fields,
     surveyId : SurveyIds, userId : Admins]

----------------------------------------------------------------------------
(* The task map: loader and component state *)

Surveyors == {1, 2}

\* { lng: 0, lat: 0 }
NoCoords == [lng |-> 0, lat |-> 0]

\* Coordinates are hundredths of a degree: the default camera is at
\* longitude -122.44, latitude 37.75, zoom 12.
DefaultView == [longitude |-> -12244, latitude |-> 3775, zoom |-> 12]

Cameras == {DefaultView, [longitude |-> -12240, latitude |-> 3780, zoom |-> 12]}
Clicks == {[lng |-> -12243, lat |-> 3776]}

\* JSON.stringify and JSON.parse of a plain record of numbers
Stringify(v) == [json |-> v]
ParseJSON(text) == text.json

\* An initial state that never looks at the saved view.
InitialStateDefault(savedState) ==
    [showPopup |-> FALSE, addPoint |-> FALSE, dCoords |-> NoCoords,
     viewState |-> DefaultView,
     completed |-> <<>>, assignment |-> <<>>]

\* The React state of a TaskMap that has just been mounted.
InitialState(savedState) ==
    [showPopup |-> FALSE, addPoint |-> FALSE, dCoords |-> NoCoords,
     viewState |-> IF savedState # <<>> THEN ParseJSON(savedState[1]) ELSE DefaultView,
     completed |-> <<>>, assignment |-> <<>>]

NoData == [assignments |-> <<>>, layer |-> <<>>, savedState |-> <<>>]

RECURSIVE SortById(_)
SortById(S) ==
    IF S = {} THEN <<>>
    ELSE LET f == CHOOSE x \in S : \A y \in S : x.id <= y.id
         IN  <<f>> \o SortById(S \ {f})

\* A findMany that forgets the layerId condition.
FindAssignedAnyLayer(F, A, layerId, uid) ==
    SortById({[id |-> fa[1].id, layerId |-> fa[1].layerId, geojson |-> fa[1].geojson,
               label |-> fa[1].label, assignment |-> fa[2]] :
                fa \in {ga \in F \X A :
                          /\ ga[2].featureId = ga[1].id
                          /\ ga[2].assigneeId = uid}})

\* prisma.feature.findMany({ where: { layerId, assignment: { is: {
\* assigneeId } } }, include: { assignment: true } })
FindAssigned(F, A, layerId, uid) ==
    SortById({[id |-> fa[1].id, layerId |-> fa[1].layerId, geojson |-> fa[1].geojson,
               label |-> fa[1].label, assignment |-> fa[2]] :
                fa \in {ga \in F \X A :
                          /\ ga[1].layerId = layerId
                          /\ ga[2].featureId = ga[1].id
                          /\ ga[2].assigneeId = uid}})

\* The loader of the task map for surveyor uid and route parameter taskId,
\* on the Layer rows L, Feature rows F and Assignment rows A;
\* findUniqueOrThrow has found the layer.
loader(L, F, A, sess, variant, uid, taskId) ==
    LET layer == CHOOSE l \in L : l.name = taskId
    IN  [assignments |-> FindAssigned(F, A, layer.id, uid),
         layer |-> <<layer>>,
         savedState |-> IF variant = "crosshair" THEN sess.viewState ELSE <<>>]

\* One feature of the rendered collections.
Rendered(f, flag) ==
    [id |-> f.id,
     properties |-> [assignmentId |-> f.assignment.id, completed |-> flag]]

IsCompleted(f) == f.assignment.completed
IsTodo(f) == ~f.assignment.completed

\* A todo filter that drops the negation.
todoAssignmentsUnnegated(data) ==
    [i \in DOMAIN SelectSeq(data, IsCompleted) |->
        Rendered(SelectSeq(data, IsCompleted)[i], FALSE)]

completedAssignments(data) ==
    [i \in DOMAIN SelectSeq(data, IsCompleted) |->
        Rendered(SelectSeq(data, IsCompleted)[i], TRUE)]

todoAssignments(data) ==
    [i \in DOMAIN SelectSeq(data, IsTodo) |->
        Rendered(SelectSeq(data, IsTodo)[i], FALSE)]

Range(q) == {q[i] : i \in DOMAIN q}

\* The features of the interactive layers "todo" and "done".
Interactive ==
    Range(todoAssignments(loaderData.assignments))
        \cup Range(completedAssignments(loaderData.assignments))

----------------------------------------------------------------------------
(* The layer-create requests *)

DB == [layers |-> layers, features |-> features]

\* The form is posted to /actions/layer-create.
Submit(r) ==
    /\ req[r].pc = "idle"
    /\ \E form \in Forms : req' = [req EXCEPT ![r] = [pc |-> "received", form |-> form]]
    /\ UNCHANGED <<shpVars, createVariant, mapVariant, dbVars, session, mapVars>>

\* The action runs on the received form and answers.
LayerCreate(r) ==
    /\ req[r].pc = "received"
    /\ \E out \in layerCreateAction(createVariant, DB, session, req[r].form) :
        /\ layers' = out.db.layers
        /\ features' = out.db.features
        /\ session' = out.session
        /\ req' = [req EXCEPT ![r] =
                     [pc |-> "answered", form |-> req[r].form, response |-> out.response]]
    /\ UNCHANGED <<shpVars, createVariant, mapVariant, assignments, mapVars>>

----------------------------------------------------------------------------
(* The TaskMap component *)

\* The bound on the Assignment rows, created and in flight.
MaxAssignments == 3

SetState(st) ==
    /\ showPopup' = st.showPopup
    /\ addPoint' = st.addPoint
    /\ dCoords' = st.dCoords
    /\ viewState' = st.viewState
    /\ completed' = st.completed
    /\ assignment' = st.assignment

\* The route /tasks/:taskId is opened: the loader runs and TaskMap mounts;
\* the Map starts at initialViewState.
Mount ==
    /\ ~mounted
    /\ \E taskId \in {l.name : l \in layers} :
        /\ loaderData' = loader(layers, features, assignments, session, mapVariant,
                             userId, taskId)
        /\ SetState(InitialState(loaderData'.savedState))
        /\ camera' = IF mapVariant = "crosshair" THEN viewState' ELSE DefaultView
    /\ mounted' = TRUE
    /\ UNCHANGED <<shpVars, createVariant, mapVariant, dbVars, session, req, userId, fetcher>>

\* Leaving the route unmounts TaskMap and drops its state.
Unmounted ==
    /\ mounted' = FALSE
    /\ loaderData' = NoData
    /\ SetState(InitialState(<<>>))
    /\ camera' = DefaultView

\* A click that, on a miss in add-point mode, posts the point itself.
onFeatureClickCreates(lngLat, hit) ==
    /\ mounted
    /\ dCoords' = lngLat
    /\ IF hit # <<>>
       THEN /\ addPoint' = IF mapVariant = "crosshair" THEN FALSE ELSE addPoint
            /\ showPopup' = TRUE
            /\ assignment' = <<hit[1].properties.assignmentId>>
            /\ completed' = <<hit[1].properties.completed>>
            /\ UNCHANGED fetcher
       ELSE /\ addPoint' = IF mapVariant = "crosshair" THEN FALSE ELSE TRUE
            /\ fetcher' = IF addPoint /\ Cardinality(assignments) + Len(fetcher) < MaxAssignments
                          THEN Append(fetcher,
                                 [layerId |-> [json |-> loaderData.layer[1].id],
                                  coordinates |-> [json |-> lngLat],
                                  userId |-> [json |-> userId]])
                          ELSE fetcher
            /\ UNCHANGED <<showPopup, assignment, completed>>
    /\ UNCHANGED <<shpVars, createVariant, mapVariant, dbVars, session, req, mounted,
                   userId, loaderData, viewState, camera>>

\* onClick of the Map at e.lngLat: hit is e.features[0] when the click is on
\* a feature of an interactive layer, and empty otherwise.
onFeatureClickOn(lngLat, hit) ==
    /\ mounted
    /\ dCoords' = lngLat
    /\ IF hit # <<>>
       THEN /\ addPoint' = IF mapVariant = "crosshair" THEN FALSE ELSE addPoint
            /\ showPopup' = TRUE
            /\ assignment' = <<hit[1].properties.assignmentId>>
            /\ completed' = <<hit[1].properties.completed>>
       ELSE /\ addPoint' = IF mapVariant = "crosshair" THEN FALSE ELSE TRUE
            /\ UNCHANGED <<showPopup, assignment, completed>>
    /\ UNCHANGED <<shpVars, createVariant, mapVariant, dbVars, session, req, mounted,
                   userId, loaderData, viewState, camera, fetcher>>

\* The clicks the Map can report.
Hits == {<<>>} \cup {<<f>> : f \in Interactive}

onFeatureClick == \E lngLat \in Clicks, hit \in Hits : onFeatureClickOn(lngLat, hit)

\* An onMove that also leaves add-point mode in the crosshair revision.
onMoveClosesAll ==
    /\ mounted
    /\ \E e \in Cameras :
        /\ camera' = e
        /\ showPopup' = FALSE
        /\ addPoint' = FALSE
        /\ viewState' = IF mapVariant = "crosshair" THEN e ELSE viewState
    /\ UNCHANGED <<shpVars, createVariant, mapVariant, dbVars, session, req, mounted,
                   userId, loaderData, dCoords, completed, assignment, fetcher>>

\* onMove of the Map: the camera has moved to e.viewState.
onMove ==
    /\ mounted
    /\ \E e \in Cameras :
        /\ camera' = e
        /\ showPopup' = FALSE
        /\ IF mapVariant = "crosshair"
           THEN viewState' = e /\ UNCHANGED addPoint
           ELSE addPoint' = FALSE /\ UNCHANGED viewState
    /\ UNCHANGED <<shpVars, createVariant, mapVariant, dbVars, session, req, mounted, userId,
                   loaderData, dCoords, completed, assignment, fetcher>>

\* The add-point button of the crosshair revision.
toggleAddPoint ==
    /\ mounted
    /\ mapVariant = "crosshair"
    /\ addPoint' = ~addPoint
    /\ UNCHANGED <<shpVars, createVariant, mapVariant, dbVars, session, req, mounted, userId,
                   loaderData, showPopup, dCoords, viewState, completed, assignment,
                   camera, fetcher>>

\* onClose of the feature popup
closePopup ==
    /\ mounted
    /\ showPopup
    /\ showPopup' = FALSE
    /\ UNCHANGED <<shpVars, createVariant, mapVariant, dbVars, session, req, mounted, userId,
                   loaderData, addPoint, dCoords, viewState, completed, assignment,
                   camera, fetcher>>

\* onClose of the Add Point popup of the popup revision
closeAddPoint ==
    /\ mounted
    /\ mapVariant = "popup"
    /\ addPoint
    /\ addPoint' = FALSE
    /\ UNCHANGED <<shpVars, createVariant, mapVariant, dbVars, session, req, mounted, userId,
                   loaderData, showPopup, dCoords, viewState, completed, assignment,
                   camera, fetcher>>

\* The body fetcher.submit posts to /layer/feature-create.
PointRequest(coordinates) ==
    [layerId |-> Stringify(loaderData.layer[1].id),
     coordinates |-> Stringify(coordinates),
     userId |-> Stringify(userId)]

\* createPoint of the popup revision sends the clicked coordinates.
createPointPopup == PointRequest(dCoords)

\* A createPoint that sends the clicked coordinates.
createPointClicked == PointRequest(dCoords)

\* createPoint of the crosshair revision sends the center of the view.
createPointCrosshair ==
    PointRequest([lng |-> viewState.longitude, lat |-> viewState.latitude])

\* The Add Point button, shown while addPoint is set.
createPoint ==
    /\ mounted
    /\ addPoint
    /\ Cardinality(assignments) + Len(fetcher) < MaxAssignments
    /\ fetcher' = Append(fetcher, IF mapVariant = "crosshair"
                                  THEN createPointCrosshair
                                  ELSE createPointPopup)
    /\ addPoint' = IF mapVariant = "crosshair" THEN addPoint ELSE FALSE
    /\ UNCHANGED <<shpVars, createVariant, mapVariant, dbVars, session, req, mounted, userId,
                   loaderData, showPopup, dCoords, viewState, completed, assignment,
                   camera>>

\* A Complete Survey button that is shown whatever completed holds.
getSurveyAlways ==
    /\ mounted
    /\ showPopup
    /\ assignment # <<>>
    /\ session' = IF mapVariant = "crosshair"
                  THEN [session EXCEPT !.viewState = <<Stringify(viewState)>>]
                  ELSE session
    /\ Unmounted
    /\ UNCHANGED <<shpVars, createVariant, mapVariant, dbVars, req, userId, fetcher>>

\* The Complete Survey button, shown in the popup when !completed &&
\* assignment: the crosshair revision posts the view state, which the
\* route's action stores in the session before it redirects to the survey;
\* the popup revision links to the survey.
getSurvey ==
    /\ mounted
    /\ showPopup
    /\ completed # <<TRUE>>
    /\ assignment # <<>>
    /\ session' = IF mapVariant = "crosshair"
                  THEN [session EXCEPT !.viewState = <<Stringify(viewState)>>]
                  ELSE session
    /\ Unmounted
    /\ UNCHANGED <<shpVars, createVariant, mapVariant, dbVars, req, userId, fetcher>>

----------------------------------------------------------------------------
(* The server behind the map: /layer/feature-create and the survey page *)

\* The Feature and the Assignment the feature-create action inserts for
\* one posted body: a point at the coordinates, assigned to the poster.
PointRows(F, A, body) ==
    [feature |->
        [id |-> Cardinality(F) + 1,
         layerId |-> ParseJSON(body.layerId),
         geojson |-> [geometry |->
                        [type |-> "Point",
                         coordinates |-> <<ParseJSON(body.coordinates).lng,
                                           ParseJSON(body.coordinates).lat>>]],
         label |-> Undefined],
     assignment |->
        [id |-> Cardinality(A) + 1,
         featureId |-> Cardinality(F) + 1,
         assigneeId |-> ParseJSON(body.userId),
         completed |-> FALSE]]

\* The action handles the oldest submission; the page's loader is then
\* called again and TaskMap renders the new data.
featureCreate ==
    /\ fetcher # <<>>
    /\ features' = features \cup {PointRows(features, assignments, Head(fetcher)).feature}
    /\ assignments' = assignments
                        \cup {PointRows(features, assignments, Head(fetcher)).assignment}
    /\ fetcher' = Tail(fetcher)
    /\ loaderData' = IF mounted
                     THEN loader(layers, features', assignments', session, mapVariant,
                                 userId, loaderData.layer[1].name)
                     ELSE loaderData
    /\ UNCHANGED <<shpVars, createVariant, mapVariant, layers, session, req, mounted, userId,
                   reactVars, camera>>

\* A toggle in place of the assignment to true.
MarkCompletedToggle(a) == [a EXCEPT !.completed = ~a.completed]

\* The row of an Assignment whose survey response has been submitted.
MarkCompleted(a) == [a EXCEPT !.completed = TRUE]

\* A surveyor submits the survey of an Assignment.
completeSurvey ==
    /\ \E a \in assignments :
        assignments' = (assignments \ {a}) \cup {MarkCompleted(a)}
    /\ UNCHANGED <<shpVars, createVariant, mapVariant, layers, features, session, req, mapVars>>

----------------------------------------------------------------------------
(* Specifications *)

UnmountedInit ==
    /\ mounted = FALSE
    /\ loaderData = NoData
    /\ showPopup = InitialState(<<>>).showPopup
    /\ addPoint = InitialState(<<>>).addPoint
    /\ dCoords = InitialState(<<>>).dCoords
    /\ viewState = InitialState(<<>>).viewState
    /\ completed = InitialState(<<>>).completed
    /\ assignment = InitialState(<<>>).assignment
    /\ camera = DefaultView
    /\ fetcher = <<>>

\* No files have been chosen in the New Layer form.
NoFilesInit ==
    /\ shpFiles = <<>>
    /\ shpUploads = <<>>
    /\ shpUrl = <<>>
    /\ shpLoad = <<>>

\* The layer-create pipeline on an empty database.
Init ==
    /\ createVariant \in {"dispatcher", "admins"}
    /\ mapVariant = "crosshair"
    /\ layers = {}
    /\ features = {}
    /\ assignments = {}
    /\ session = [task |-> <<>>, viewState |-> <<>>]
    /\ req = [r \in Reqs |-> [pc |-> "idle"]]
    /\ userId = 1
    /\ UnmountedInit
    /\ NoFilesInit

Next == \E r \in Reqs : Submit(r) \/ LayerCreate(r)

Spec == Init /\ [][Next]_vars

\* The rows after two imports: layer "A" with three features, layer "B"
\* with one.
ImportedRows(variant) ==
    LET formA == [features |-> JSONText(Arr(
                    <<FeatureRecord(Obj([name |-> Str(Short)])),
                      FeatureRecord(Obj([name |-> Str(Filler)])),
                      FeatureRecord(Obj([kind |-> Num(1)]))>>)),
                  name |-> "A", field |-> "name", surveyId |-> "1", userId |-> 1]
        formB == [features |-> JSONText(Arr(<<FeatureRecord(Obj([name |-> Str(Short)]))>>)),
                  name |-> "B", field |-> "name", surveyId |-> "", userId |-> 1]
        sess == [task |-> <<>>, viewState |-> <<>>]
        afterA == CHOOSE out \in layerCreateAction(variant, NoRows, sess, formA) : TRUE
    IN  (CHOOSE out \in layerCreateAction(variant, afterA.db, sess, formB) : TRUE).db

\* The Assignment rows the admin's bulk assignment has made.
AssignedRows ==
    {[id |-> 1, featureId |-> 1, assigneeId |-> 1, completed |-> FALSE],
     [id |-> 2, featureId |-> 2, assigneeId |-> 2, completed |-> FALSE]}

\* The task map on an imported and assigned database.
InitMap ==
    /\ createVariant = "admins"
    /\ mapVariant \in {"popup", "crosshair"}
    /\ layers = ImportedRows(createVariant).layers
    /\ features = ImportedRows(createVariant).features
    /\ assignments = AssignedRows
    /\ session = [task |-> <<>>, viewState |-> <<>>]
    /\ req = [r \in Reqs |-> [pc |-> "idle"]]
    /\ userId \in Surveyors
    /\ UnmountedInit
    /\ NoFilesInit

NextMap ==
    \/ Mount
    \/ onFeatureClick
    \/ onMove
    \/ toggleAddPoint
    \/ closePopup
    \/ closeAddPoint
    \/ createPoint
    \/ getSurvey
    \/ featureCreate
    \/ completeSurvey

SpecMap == InitMap /\ [][NextMap]_vars

----------------------------------------------------------------------------
(* Properties of the layer-create action, checked under Spec *)

\* Request r is answered in this step.
Runs(r) == req[r].pc = "received" /\ req'[r].pc = "answered"

IsAnswered(r) == req[r].pc = "answered"
Succeeded(r) == IsAnswered(r) /\ req[r].response.status = "redirect"
Failed(r) == IsAnswered(r) /\ req[r].response.status = "error"

\* The features field holds the JSON text of a list of feature records.
HasFeatures(form) == form.features.kind = "json"
CountOf(form) == Len(form.features.value.a)

LayerNamed(name) == CHOOSE l \in layers : l.name = name
RowsOf(name) == {f \in features : f.layerId = LayerNamed(name).id}

\* The row of the i-th feature of a successful request.
RowFor(r, i) ==
    LET rows == RowsOf(req[r].form.name)
        first == CHOOSE f \in rows : \A g \in rows : f.id <= g.id
    IN  CHOOSE f \in rows : f.id = first.id + i - 1

C1_Outcome(r) ==
    \/ /\ req'[r].response.status = "redirect"
       /\ layers \subseteq layers'
       /\ features \subseteq features'
       /\ Cardinality(layers' \ layers) = 1
       /\ Cardinality(features' \ features) = CountOf(req[r].form)
       /\ \A l \in layers' \ layers :
            /\ l.name = req[r].form.name
            /\ \A f \in features' \ features : f.layerId = l.id
    \/ /\ req'[r].response.status = "error"
       /\ layers' = layers
       /\ features' = features

C1_NoPartial ==
    /\ \A f \in features : \E l \in layers : l.id = f.layerId
    /\ \A r \in Reqs :
        (Succeeded(r) /\ HasFeatures(req[r].form)) =>
            /\ \E l \in layers : l.name = req[r].form.name
            /\ Cardinality(RowsOf(req[r].form.name)) = CountOf(req[r].form)

\* C1: a run of the layer-create action on a list of N >= 1 features either
\* succeeds and adds exactly one Layer row and exactly N Feature rows, all
\* linked to that Layer, or fails and adds no row of either kind; no state
\* holds a Feature without its Layer or a created Layer short of features.
C1_Atomicity ==
    /\ []C1_NoPartial
    /\ [][\A r \in Reqs :
            (Runs(r) /\ HasFeatures(req[r].form) /\ CountOf(req[r].form) >= 1)
                => C1_Outcome(r)]_vars

\* One request has imported a list of three features, the other has failed
\* on a list of features.
C1_Witness ==
    \E r, q \in Reqs :
        /\ Succeeded(r)
        /\ HasFeatures(req[r].form)
        /\ CountOf(req[r].form) = 3
        /\ Cardinality(RowsOf(req[r].form.name)) = 3
        /\ Failed(q)
        /\ HasFeatures(req[q].form)
        /\ CountOf(req[q].form) >= 1

\* The string the scrub rule prescribes for s.
Prescribed(s) ==
    IF JSLength(s) = 254 /\ s # <<>> /\ \A i \in DOMAIN s : s[i] = s[1]
    THEN <<>>
    ELSE s

RECURSIVE PrescribedValue(_)
PrescribedValue(v) ==
    CASE v.t = "str" -> Str(Prescribed(v.s))
      [] v.t = "arr" -> Arr([i \in DOMAIN v.a |-> PrescribedValue(v.a[i])])
      [] v.t = "obj" -> Obj([k \in DOMAIN v.o |-> PrescribedValue(v.o[k])])
      [] OTHER -> v

\* C2: parsing the features field replaces every string value of length 254
\* made of one repeated character by the empty string, at every depth, and
\* leaves every other string and every non-string value as it is; the rows
\* of a successful import hold the values so parsed.
C2_Reviver ==
    \A r \in Reqs :
        (req[r].pc # "idle" /\ HasFeatures(req[r].form)) =>
            /\ req[r].pc = "received" =>
                 JSONParse(req[r].form.features)
                   = [ok |-> TRUE, value |-> PrescribedValue(req[r].form.features.value)]
            /\ Succeeded(r) =>
                 \A i \in 1..CountOf(req[r].form) :
                    RowFor(r, i).geojson
                      = PrescribedValue(req[r].form.features.value.a[i].o.geojson)

\* A row holds a nested list whose filler string has been emptied and whose
\* 253-character string is kept, and another row keeps the 255-character
\* string.
C2_Witness ==
    /\ \E f \in features :
        /\ f.geojson.o.properties.t = "obj"
        /\ "kind" \in DOMAIN f.geojson.o.properties.o
        /\ f.geojson.o.properties.o.kind = Arr(<<Str(<<>>), Str(Shorter)>>)
    /\ \E f \in features :
        /\ f.geojson.o.properties.t = "obj"
        /\ "name" \in DOMAIN f.geojson.o.properties.o
        /\ f.geojson.o.properties.o.name = Str(Longer)

\* C3: the label of every Feature row made from a feature whose properties
\* hold the key labelField equals that property as parsed.
C3_Label ==
    \A r \in Reqs :
        (Succeeded(r) /\ HasFeatures(req[r].form)) =>
            \A i \in 1..CountOf(req[r].form) :
                LET properties ==
                        JSONParse(req[r].form.features).value.a[i].o.geojson.o.properties
                IN  (properties.t = "obj" /\ req[r].form.field \in DOMAIN properties.o)
                        => RowFor(r, i).label = properties.o[req[r].form.field]

\* C4: a run with features equal to the empty string succeeds, adds exactly
\* one Layer row with the given name, owner and default survey, and adds no
\* Feature row.
C4_EmptyFeatures ==
    [][\A r \in Reqs :
        (/\ Runs(r)
         /\ req[r].form.features = EmptyText
         /\ ~\E l \in layers : l.name = req[r].form.name
         /\ \A i \in DOMAIN DefaultSurvey(req[r].form.surveyId) :
                DefaultSurvey(req[r].form.surveyId)[i] \in Surveys)
        => /\ req'[r].response.status = "redirect"
           /\ features' = features
           /\ layers \subseteq layers'
           /\ Cardinality(layers' \ layers) = 1
           /\ \A l \in layers' \ layers :
                /\ l.name = req[r].form.name
                /\ l.owner.id = req[r].form.userId
                /\ l.defaultSurveyId = DefaultSurvey(req[r].form.surveyId)]_vars

\* C5: a run whose name is the name of a persisted Layer fails, and the rows
\* are as they were.
C5_DuplicateName ==
    [][\A r \in Reqs :
        (Runs(r) /\ \E l \in layers : l.name = req[r].form.name)
        => /\ req'[r].response.status = "error"
           /\ layers' = layers
           /\ features' = features]_vars

\* A request has failed on the unique name of a Layer that holds features.
C5_Witness ==
    \E r \in Reqs :
        /\ Failed(r)
        /\ req[r].response.error = "P2002"
        /\ HasFeatures(req[r].form)
        /\ RowsOf(req[r].form.name) # {}

\* C6: a run whose features field is text that is not JSON fails with the
\* parse error, and rows and session are as they were.
C6_MalformedInput ==
    [][\A r \in Reqs :
        (Runs(r) /\ req[r].form.features = InvalidText)
        => /\ req'[r].response = Thrown("SyntaxError")
           /\ layers' = layers
           /\ features' = features
           /\ session' = session]_vars

\* A request with malformed features has failed after an import of the other
\* request.
C6_Witness ==
    \E r, q \in Reqs :
        /\ Failed(r)
        /\ req[r].form.features = InvalidText
        /\ req[r].response.error = "SyntaxError"
        /\ Succeeded(q)
        /\ features # {}
        /\ ~\E l \in layers : l.name = req[r].form.name

----------------------------------------------------------------------------
(* Properties of the task map, checked under SpecMap *)

\* createPoint has submitted in this step.
Confirms == Len(fetcher') = Len(fetcher) + 1 /\ fetcher' = Append(fetcher, fetcher'[Len(fetcher')])

Submitted == fetcher'[Len(fetcher')]
Center == [lng |-> camera.longitude, lat |-> camera.latitude]

\* The request names the viewed layer and the surveyor.
C7_Addressed ==
    /\ Len(fetcher') = Len(fetcher) + 1
    /\ ParseJSON(Submitted.layerId) = loaderData.layer[1].id
    /\ ParseJSON(Submitted.userId) = userId

\* The rows feature-create inserts are a point at the posted coordinates and
\* its open Assignment to the poster.
C7_Created ==
    (fetcher # <<>> /\ fetcher' = Tail(fetcher)) =>
        /\ Cardinality(features' \ features) = 1
        /\ Cardinality(assignments' \ assignments) = 1
        /\ \A f \in features' \ features, a \in assignments' \ assignments :
            /\ f.geojson.geometry.type = "Point"
            /\ f.geojson.geometry.coordinates
                 = <<ParseJSON(Head(fetcher).coordinates).lng,
                     ParseJSON(Head(fetcher).coordinates).lat>>
            /\ f.layerId = ParseJSON(Head(fetcher).layerId)
            /\ a.featureId = f.id
            /\ a.completed = FALSE
            /\ a.assigneeId = ParseJSON(Head(fetcher).userId)

Ids(q) == {q[i].id : i \in DOMAIN q}

\* C8: the two collections split the fetched features by the completed flag
\* of their assignments: each feature is in exactly one of them, and the
\* rendered completed property equals the flag.
C8_Partition ==
    LET data == loaderData.assignments
        done == completedAssignments(data)
        todo == todoAssignments(data)
    IN  /\ Ids(done) = {data[i].id : i \in {j \in DOMAIN data : data[j].assignment.completed}}
        /\ Ids(todo) = {data[i].id : i \in {j \in DOMAIN data : ~data[j].assignment.completed}}
        /\ Ids(done) \cap Ids(todo) = {}
        /\ Ids(done) \cup Ids(todo) = Ids(data)
        /\ Len(done) + Len(todo) = Len(data)
        /\ \A g \in Range(done) \cup Range(todo) :
            \E i \in DOMAIN data :
                /\ data[i].id = g.id
                /\ data[i].assignment.id = g.properties.assignmentId
                /\ data[i].assignment.completed = g.properties.completed

\* The fetched list holds a completed and an open feature.
C8_Witness ==
    /\ mounted
    /\ Len(completedAssignments(loaderData.assignments)) >= 1
    /\ Len(todoAssignments(loaderData.assignments)) >= 1

\* C9: an Assignment that is completed stays completed, and no Assignment
\* is removed.
C9_CompletedStays ==
    [][\A a \in assignments :
        \E b \in assignments' :
            /\ b.id = a.id
            /\ b.featureId = a.featureId
            /\ a.completed => b.completed]_vars

\* An imported and a field-added Assignment are completed.
C9_Witness ==
    /\ \E a \in assignments : a.completed /\ a \notin AssignedRows /\ a.id > 2
    /\ \E a \in assignments : a.completed /\ a.id <= 2

\* The loader has run in this step.
Loads == loaderData' # loaderData /\ loaderData'.layer # <<>>

\* C10: the loader returns exactly the Features of the requested Layer that
\* have an Assignment of the current surveyor, each once and with that
\* Assignment.
C10_LoaderQuery ==
    [][Loads =>
        LET data == loaderData'.assignments
            layer == loaderData'.layer[1]
        IN  /\ layer \in layers'
            /\ Ids(data) = {f.id : f \in {g \in features' :
                                /\ g.layerId = layer.id
                                /\ \E a \in assignments' :
                                    a.featureId = g.id /\ a.assigneeId = userId'}}
            /\ Len(data) = Cardinality(Ids(data))
            /\ \A i \in DOMAIN data :
                /\ data[i].assignment \in assignments'
                /\ data[i].assignment.featureId = data[i].id
                /\ \E f \in features' :
                    /\ f.id = data[i].id
                    /\ f.geojson = data[i].geojson]_vars

\* The loaded layer holds a feature of the surveyor, one of another surveyor
\* and an unassigned one, and the surveyor has a feature in another layer.
C10_Witness ==
    /\ mounted
    /\ Len(loaderData.assignments) >= 1
    /\ \E f \in features, a \in assignments :
        /\ f.layerId = loaderData.layer[1].id
        /\ a.featureId = f.id
        /\ a.assigneeId # userId
    /\ \E f \in features :
        /\ f.layerId = loaderData.layer[1].id
        /\ ~\E a \in assignments : a.featureId = f.id
    /\ \E f \in features, a \in assignments :
        /\ f.layerId # loaderData.layer[1].id
        /\ a.featureId = f.id
        /\ a.assigneeId = userId

----------------------------------------------------------------------------
(* Concurrent layer-create requests, checked under Spec *)

\* The run of this form throws nothing before prisma.layer.create and
\* connects only records that exist.
Creatable(form) ==
    /\ HasFeatures(form)
    /\ LayerInput(createVariant, form, JSONParse(form.features).value).ok
    /\ \A i \in DOMAIN DefaultSurvey(form.surveyId) :
            DefaultSurvey(form.surveyId)[i] \in Surveys

\* The geojson values of the parsed features of a form.
ParsedGeojson(form) ==
    {JSONParse(form.features).value.a[i].o.geojson : i \in 1..CountOf(form)}

\* C11: of two requests with the same name at most one succeeds, whatever
\* the order of their steps; the name then has exactly one Layer, whose
\* Features are those of the request that succeeded, and the other request
\* has been answered with the failure.
C11_SameName ==
    \A r, q \in Reqs :
        (/\ r # q
         /\ IsAnswered(r)
         /\ IsAnswered(q)
         /\ req[r].form.name = req[q].form.name)
        => /\ ~(Succeeded(r) /\ Succeeded(q))
           /\ Cardinality({l \in layers : l.name = req[r].form.name}) <= 1
           /\ (Creatable(req[r].form) /\ Creatable(req[q].form))
                => (Succeeded(r) \/ Succeeded(q))
           /\ Succeeded(r) =>
                /\ Failed(q)
                /\ Cardinality({l \in layers : l.name = req[r].form.name}) = 1
                /\ Cardinality(RowsOf(req[r].form.name)) = CountOf(req[r].form)
                /\ {f.geojson : f \in RowsOf(req[r].form.name)}
                     = ParsedGeojson(req[r].form)

\* One request has imported its three features; the other, whose list of
\* two features would have been created on its own, has failed on the name.
C11_Witness ==
    \E r, q \in Reqs :
        /\ Succeeded(r)
        /\ Failed(q)
        /\ req[q].response.error = "P2002"
        /\ req[r].form.name = req[q].form.name
        /\ Creatable(req[q].form)
        /\ CountOf(req[r].form) = 3
        /\ CountOf(req[q].form) = 2
        /\ Cardinality(RowsOf(req[r].form.name)) = 3

----------------------------------------------------------------------------
(* The shapefile upload of the New Layer form *)

\* The bound on the number of files chosen at once.
MaxFiles == 3

\* File names, split at their dots.
ShpFileNames ==
    {<<"roads", "shp">>, <<"roads", "dbf">>, <<"roads", "shx">>,
     <<"roads", "shp", "xml">>, <<"rivers", "shp">>}

\* The URL /actions/file-upload returns for a file, split at its dots:
\* https://files.example/<name>
UploadUrl(file) ==
    <<"https://files",
      CASE file[1] = "roads" -> "example/roads"
        [] file[1] = "rivers" -> "example/rivers">> \o Tail(file)

\* The piece after the first dot of the file's name.
extensionAfterFirstDot(layerUrl) == layerUrl[3]

\* layerUrl.split(".").pop()
extension(layerUrl) == layerUrl[Len(layerUrl)]

\* One turn of handleShpUpload's loop: the next file is posted, and the
\* returned URL becomes shpUrl when its extension is shp.
uploadFile ==
    /\ shpLoad = <<>>
    /\ Len(shpUploads) < Len(shpFiles)
    /\ LET layerUrl == UploadUrl(shpFiles[Len(shpUploads) + 1])
       IN  /\ shpUploads' = Append(shpUploads, layerUrl)
           /\ shpUrl' = IF extension(layerUrl) = "shp" THEN layerUrl ELSE shpUrl
    /\ UNCHANGED <<createVariant, mapVariant, dbVars, session, req, mapVars,
                   shpFiles, shpLoad>>

\* After the loop: load(shpUrl, ShapefileLoader).
loadShapefile ==
    /\ shpLoad = <<>>
    /\ Len(shpUploads) = Len(shpFiles)
    /\ shpLoad' = <<shpUrl>>
    /\ UNCHANGED <<createVariant, mapVariant, dbVars, session, req, mapVars,
                   shpFiles, shpUploads, shpUrl>>

\* The lists of n distinct files.
RECURSIVE FileLists(_)
FileLists(n) ==
    IF n = 0 THEN {<<>>}
    ELSE {Append(l, f) : <<l, f>> \in
            {lf \in FileLists(n - 1) \X ShpFileNames :
                \A i \in DOMAIN lf[1] : lf[1][i] # lf[2]}}

\* handleFileChange hands the chosen files to handleShpUpload when they are
\* more than one.
InitShp ==
    /\ createVariant = "admins"
    /\ mapVariant = "crosshair"
    /\ layers = {}
    /\ features = {}
    /\ assignments = {}
    /\ session = [task |-> <<>>, viewState |-> <<>>]
    /\ req = [r \in Reqs |-> [pc |-> "idle"]]
    /\ userId = 1
    /\ UnmountedInit
    /\ shpFiles \in UNION {FileLists(n) : n \in 2..MaxFiles}
    /\ shpUploads = <<>>
    /\ shpUrl = <<>>
    /\ shpLoad = <<>>

NextShp == uploadFile \/ loadShapefile

SpecShp == InitShp /\ [][NextShp]_vars

\* The files whose returned URL ends in shp.
ShpOf(files) == {f \in Range(files) : UploadUrl(f)[Len(UploadUrl(f))] = "shp"}

\* The lists that hold the same files as the chosen list.
Orderings(files) == {l \in FileLists(Len(files)) : Range(l) = Range(files)}

\* shpUrl after the loop over a list of files.
RECURSIVE ShpUrlAfter(_)
ShpUrlAfter(files) ==
    IF files = <<>> THEN <<>>
    ELSE IF extension(UploadUrl(files[Len(files)])) = "shp"
         THEN UploadUrl(files[Len(files)])
         ELSE ShpUrlAfter(SubSeq(files, 1, Len(files) - 1))

\* C14: for the files of one shapefile, of which exactly one comes back
\* with a URL that ends in shp, every file is uploaded once, the URL
\* handed to load() is that URL, and every ordering of the same files
\* yields the same URL.
C14_ShpByExtension ==
    (shpLoad # <<>> /\ Cardinality(ShpOf(shpFiles)) = 1) =>
        /\ Len(shpUploads) = Len(shpFiles)
        /\ \A i \in DOMAIN shpFiles : shpUploads[i] = UploadUrl(shpFiles[i])
        /\ \A f \in ShpOf(shpFiles) : shpLoad = <<UploadUrl(f)>>
        /\ \A l \in Orderings(shpFiles) : <<ShpUrlAfter(l)>> = shpLoad

\* The shapefile's .shp came first of three files, followed by its
\* .shp.xml and .dbf, and has been handed to load().
C14_Witness ==
    /\ Len(shpFiles) = 3
    /\ shpFiles[1] = <<"roads", "shp">>
    /\ shpFiles[2] = <<"roads", "shp", "xml">>
    /\ shpLoad = <<UploadUrl(<<"roads", "shp">>)>>

----------------------------------------------------------------------------
(* C12, C13: camera moves and clicks off the features *)

\* A step in which the mounted map's camera moves.
MoveStep == mounted /\ mounted' /\ camera' # camera

\* C12 as stated: every camera move closes the feature popup and leaves
\* add-point mode as it was.
C12_MoveKeepsAddPoint ==
    [][MoveStep => (~showPopup' /\ addPoint' = addPoint)]_vars

\* C12: every camera move closes the feature popup; the crosshair revision
\* leaves add-point mode as it was, the popup revision closes the Add
\* Point popup too.
C12_MoveClosesPopups ==
    [][MoveStep =>
        /\ ~showPopup'
        /\ mapVariant = "crosshair" => (addPoint' = addPoint /\ viewState' = camera')
        /\ mapVariant = "popup" => (~addPoint' /\ viewState' = viewState)]_vars

\* The crosshair map has been moved while in add-point mode.
C12_Witness ==
    /\ mounted
    /\ mapVariant = "crosshair"
    /\ addPoint
    /\ ~showPopup
    /\ camera # DefaultView
    /\ viewState = camera
    /\ dCoords = NoCoords

\* A click off the features while add-point mode is on.
MissInAddPoint(lngLat) == addPoint /\ onFeatureClickOn(lngLat, <<>>)

----------------------------------------------------------------------------
(* C15: the saved view *)

\* A step in which the survey of the popup's assignment is opened.
OpenStep == mounted /\ ~mounted'

\* A step in which the task map is loaded and mounted.
LoadStep == ~mounted /\ mounted'

\* C15: in the crosshair revision, opening a survey stores the current
\* viewState in the session and nothing else ever changes the stored value;
\* the next load returns the stored value as savedState and the map starts
\* at the view it encodes, which is the view that was current when the
\* survey was opened; when nothing was stored the map starts at the
\* default view.
C15_ViewRoundTrip ==
    [][/\ (OpenStep /\ mapVariant = "crosshair") =>
            session'.viewState = <<Stringify(viewState)>>
       /\ session'.viewState # session.viewState =>
            (OpenStep /\ mapVariant = "crosshair")
       /\ (LoadStep /\ mapVariant = "crosshair") =>
            /\ loaderData'.savedState = session.viewState
            /\ session.viewState = <<>> =>
                (viewState' = DefaultView /\ camera' = DefaultView)
            /\ \A v \in Cameras :
                session.viewState = <<Stringify(v)>> =>
                    (viewState' = v /\ camera' = v)]_vars

\* The crosshair map has been loaded again after a survey was opened from
\* a view other than the default one, and starts at that view.
C15_Witness ==
    /\ mounted
    /\ mapVariant = "crosshair"
    /\ session.viewState # <<>>
    /\ session.viewState # <<Stringify(DefaultView)>>
    /\ loaderData.savedState = session.viewState
    /\ <<Stringify(viewState)>> = session.viewState
    /\ camera = viewState
    /\ assignment = <<>>
    /\ completed = <<>>
    /\ dCoords = NoCoords

----------------------------------------------------------------------------
(* C16: the feature popup and add-point mode *)

\* C16: the feature popup and add-point mode are never both active.
C16_PopupExcludesAddPoint == ~(mounted /\ showPopup /\ addPoint)

----------------------------------------------------------------------------
(* C17: the Complete Survey button *)

\* {!completed && assignment && <button>} inside {showPopup && <Popup>}
Offered == mounted /\ showPopup /\ completed # <<TRUE>> /\ assignment # <<>>

\* The loaded features with the given assignment id and completed flag.
LoadedAs(id, flag) ==
    {f \in Range(loaderData.assignments) :
        f.assignment.id = id /\ f.assignment.completed = flag}

====
